---- MODULE Spec2Model ----
(***************************************************************************)
(* Boids flocking simulation (src/src/kernel.cu): the brute-force, the     *)
(* scattered-grid and the coherent-grid step over the device buffers.      *)
(*                                                                         *)
(* A glm::vec3 is a triple <<x, y, z>> of integers counting FP-ths of a    *)
(* unit (fixed point); a float product or quotient rounds to the nearest   *)
(* representable value (RDiv).  A device array of length N is a function   *)
(* on 0..N-1; a buffer whose contents were never written is <<>>.          *)
(* The two per-cell tables are kept as functions on the cells whose entry  *)
(* is not -1 (CellAt reads -1 everywhere else).                            *)
(*                                                                         *)
(* Spec is a process that calls initSimulation once and then steps;        *)
(* SpecReinit is one that may also call endSimulation and initSimulation   *)
(* again.  After a later initSimulation the cell ids can leave             *)
(* 0..gridCellCount-1; an access of a table at such an id is modelled as   *)
(* an access of memory next to the table, which keeps what was written.    *)
(***************************************************************************)
EXTENDS Integers, Sequences, FiniteSets, TLC

(* ---------------------------- bounds ---------------------------------- *)
MaxN == 2
MaxSteps == 2
Tolerance == 2
MaxInits == 2

(* ------------------------- configuration ------------------------------ *)
\* every float below is written in FP-ths: 5.0f is 5000, 0.01f is 10
FP == 1000

rule1Distance == 5000
rule2Distance == 3000
rule3Distance == 5000

rule1Scale == 10
rule2Scale == 100
rule3Scale == 100

maxSpeed == 1000
scene_scale == 100000

Axes == 1..3
ZeroVec == <<0, 0, 0>>
Unwritten == <<>>

(* ------------------------- vector arithmetic -------------------------- *)
Abs(a) == IF a < 0 THEN -a ELSE a

Max2(a, b) == IF a > b THEN a ELSE b

\* a / b for b > 0, rounded to the nearest integer (halves away from zero)
RDiv(a, b) == IF a >= 0 THEN (2 * a + b) \div (2 * b)
                        ELSE -((2 * (-a) + b) \div (2 * b))

VAdd(a, b) == [c \in Axes |-> a[c] + b[c]]
VSub(a, b) == [c \in Axes |-> a[c] - b[c]]
VDiv(a, n) == [c \in Axes |-> RDiv(a[c], n)]
\* a * s for a float s given in FP-ths
VMul(a, s) == [c \in Axes |-> RDiv(a[c] * s, FP)]

Dot(a, b) == a[1] * b[1] + a[2] * b[2] + a[3] * b[3]

RECURSIVE ISqrtIter(_, _, _)
ISqrtIter(n, lo, hi) ==
  IF lo >= hi THEN lo
  ELSE LET mid == (lo + hi + 1) \div 2
       IN  IF mid * mid <= n THEN ISqrtIter(n, mid, hi)
                             ELSE ISqrtIter(n, lo, mid - 1)

ISqrt(n) == ISqrtIter(n, 0, 46340)

\* glm::length(v), to the nearest FP-th
Length(v) ==
  LET n == Dot(v, v)
      r == ISqrt(n)
  IN  IF n - r * r > r THEN r + 1 ELSE r

\* glm::length(v) > m
LengthExceeds(v, m) == Dot(v, v) > m * m

\* glm::distance(a, b) < r; the first conjunct keeps the squares small
DistanceLess(a, b, r) ==
  /\ \A c \in Axes : Abs(a[c] - b[c]) < r
  /\ Dot(VSub(a, b), VSub(a, b)) < r * r

Normalize(v) == [c \in Axes |-> RDiv(v[c] * FP, Length(v))]

(* --------------------------- grid indexing ---------------------------- *)
gridIndex3Dto1D(x, y, z, gridResolution) ==
  x + y * gridResolution + z * gridResolution * gridResolution

\* floor((pos - gridMin) * inverseCellWidth), per axis
gridIndex3D(pos, gridMin, inverseCellWidth) ==
  [c \in Axes |-> ((pos[c] - gridMin[c]) * inverseCellWidth) \div (FP * FP)]

\* glm::round((pos - gridMin) * inverseCellWidth), per axis
gridIndex3DRound(pos, gridMin, inverseCellWidth) ==
  [c \in Axes |-> RDiv((pos[c] - gridMin[c]) * inverseCellWidth, FP * FP)]

gridIndex1D(pos, gridMin, inverseCellWidth, gridResolution) ==
  LET pos_in_grid == gridIndex3D(pos, gridMin, inverseCellWidth)
  IN  gridIndex3Dto1D(pos_in_grid[1], pos_in_grid[2], pos_in_grid[3],
                      gridResolution)

(* ------------------------- per-cell tables ---------------------------- *)
EmptyTable == [c \in {} |-> -1]

CellAt(table, c) == IF c \in DOMAIN table THEN table[c] ELSE -1

\* the buffer left as it was
kernResetIntBuffer_Skipped(N, intBuffer, value) == intBuffer

\* kernResetIntBuffer<<<cells>>>(N, intBuffer, value): every entry is value
kernResetIntBuffer(N, intBuffer, value) ==
  IF value = -1 THEN EmptyTable ELSE [c \in 0..(N - 1) |-> value]

(* ------------------------- kernComputeIndices ------------------------- *)
ComputeGridIndices(N, gridResolution, gridMin, inverseCellWidth, pos) ==
  [idx \in 0..(N - 1) |->
     gridIndex1D(pos[idx], gridMin, inverseCellWidth, gridResolution)]

\* indices[idx] = 0 in place of indices[idx] = idx
ComputeArrayIndices_Zero(N) == [idx \in 0..(N - 1) |-> 0]

ComputeArrayIndices(N) == [idx \in 0..(N - 1) |-> idx]

(* ------------------------- thrust::sort_by_key ------------------------ *)
Perms(N) == {p \in [0..(N - 1) -> 0..(N - 1)] :
               \A i, j \in 0..(N - 1) : p[i] = p[j] => i = j}

Permute(arr, p) == [i \in DOMAIN p |-> arr[p[i]]]

IsSorted(keys) ==
  \A i \in DOMAIN keys : \A j \in DOMAIN keys : i < j => keys[i] <= keys[j]

\* the orders sort_by_key may leave: keys ascending, equal keys in any order
SortOrders(keys, N) == {p \in Perms(N) : IsSorted(Permute(keys, p))}

(* ----------------------- kernIdentifyCellStartEnd --------------------- *)
\* every thread writing the start entry of its cell
StartWriters_All(N, particleGridIndices) == 0..(N - 1)

StartWriters(N, particleGridIndices) ==
  {idx \in 0..(N - 1) :
     idx = 0 \/ particleGridIndices[idx] # particleGridIndices[idx - 1]}

EndWriters(N, particleGridIndices) ==
  {idx \in 0..(N - 1) :
     idx = N - 1 \/ particleGridIndices[idx] # particleGridIndices[idx + 1]}

\* the tables the threads in writers can leave, each writing
\* table[particleGridIndices[idx]] = idx; two writers of one cell race
TablesWritten(table, particleGridIndices, writers) ==
  LET cells == {particleGridIndices[idx] : idx \in writers}
      last  == {w \in [cells -> writers] :
                  \A c \in cells : particleGridIndices[w[c]] = c}
  IN  {[c \in (DOMAIN table) \cup cells |->
          IF c \in cells THEN w[c] ELSE table[c]] : w \in last}

(* ------------------------ the three flocking rules -------------------- *)
RECURSIVE SumVec(_)
SumVec(vs) == IF vs = <<>> THEN ZeroVec ELSE VAdd(Head(vs), SumVec(Tail(vs)))

\* the candidates the loop of one rule accepts, in loop order
Influencing(cand, self, self_pos, pos, dist) ==
  SelectSeq(cand, LAMBDA i : i # self /\ DistanceLess(pos[i], self_pos, dist))

\* Rule 1: perceived centre of the neighbours, (centre - self) * rule1Scale
Rule1(cand, self, self_pos, pos) ==
  LET near   == Influencing(cand, self, self_pos, pos, rule1Distance)
      sum    == SumVec([k \in 1..Len(near) |-> pos[near[k]]])
      center == IF Len(near) > 0 THEN VDiv(sum, Len(near)) ELSE sum
  IN  VMul(VSub(center, self_pos), rule1Scale)

\* center += (pos[i] - self_pos) in place of -=
Rule2_Attract(cand, self, self_pos, pos) ==
  LET near   == Influencing(cand, self, self_pos, pos, rule2Distance)
      center == SumVec([k \in 1..Len(near) |-> VSub(pos[near[k]], self_pos)])
  IN  VMul(center, rule2Scale)

\* Rule 2: center -= (pos[i] - self_pos) over the neighbours, * rule2Scale
Rule2(cand, self, self_pos, pos) ==
  LET near   == Influencing(cand, self, self_pos, pos, rule2Distance)
      center == SumVec([k \in 1..Len(near) |-> VSub(self_pos, pos[near[k]])])
  IN  VMul(center, rule2Scale)

\* Rule 3: mean velocity of the neighbours, * rule3Scale
Rule3(cand, self, self_pos, pos, vel) ==
  LET near == Influencing(cand, self, self_pos, pos, rule3Distance)
      sum  == SumVec([k \in 1..Len(near) |-> vel[near[k]]])
      perceived_vel == IF Len(near) > 0 THEN VDiv(sum, Len(near)) ELSE sum
  IN  VMul(perceived_vel, rule3Scale)

\* new_vel before the clamp, for the boid at index self of pos and vel
RawVelocity(cand, self, pos, vel) ==
  VAdd(VAdd(VAdd(vel[self], Rule1(cand, self, pos[self], pos)),
            Rule2(cand, self, pos[self], pos)),
       Rule3(cand, self, pos[self], pos, vel))

\* the clamp left out
ClampSpeed_Unclamped(new_vel) == new_vel

ClampSpeed(new_vel) ==
  IF LengthExceeds(new_vel, maxSpeed) THEN VMul(Normalize(new_vel), maxSpeed)
                                      ELSE new_vel

(* ------------------------ brute-force kernel -------------------------- *)
computeVelocityChange(N, iSelf, pos, vel) ==
  RawVelocity([k \in 1..N |-> k - 1], iSelf, pos, vel)

(* ------------------------ grid neighbour search ----------------------- *)
\* the two directions exchanged
BiasAlongAxes_Swapped(boid_pos, gridMin, inverseCellWidth) ==
  LET fl == gridIndex3D(boid_pos, gridMin, inverseCellWidth)
      rd == gridIndex3DRound(boid_pos, gridMin, inverseCellWidth)
  IN  [c \in Axes |-> IF rd[c] # fl[c] THEN -1 ELSE 1]

\* -1, or +1 on the axes where the rounded cell differs from the floored one
BiasAlongAxes(boid_pos, gridMin, inverseCellWidth) ==
  LET fl == gridIndex3D(boid_pos, gridMin, inverseCellWidth)
      rd == gridIndex3DRound(boid_pos, gridMin, inverseCellWidth)
  IN  [c \in Axes |-> IF rd[c] # fl[c] THEN 1 ELSE -1]

\* the 8 cell ids of the zStep-yStep-xStep loop, in loop order
NeighborCells(boid_pos, gridMin, inverseCellWidth, gridResolution) ==
  LET g    == gridIndex3D(boid_pos, gridMin, inverseCellWidth)
      bias == BiasAlongAxes(boid_pos, gridMin, inverseCellWidth)
  IN  [k \in 1..8 |->
         LET xStep == (k - 1) % 2
             yStep == ((k - 1) \div 2) % 2
             zStep == (k - 1) \div 4
         IN  gridIndex3Dto1D(g[1] + xStep * bias[1], g[2] + yStep * bias[2],
                             g[3] + zStep * bias[3], gridResolution)]

\* valid_neighbor_idx_list: the cells whose start index is not negative
ValidNeighbors(boid_pos, gridMin, inverseCellWidth, gridResolution, gridCellStartIndices) ==
  SelectSeq(NeighborCells(boid_pos, gridMin, inverseCellWidth, gridResolution),
            LAMBDA c : CellAt(gridCellStartIndices, c) >= 0)

\* the slots j = start..end of each listed cell, in loop order
RECURSIVE CellSlots(_, _, _)
CellSlots(cells, gridCellStartIndices, gridCellEndIndices) ==
  IF cells = <<>> THEN <<>>
  ELSE LET first == CellAt(gridCellStartIndices, Head(cells))
           last  == CellAt(gridCellEndIndices, Head(cells))
       IN  [k \in 1..(last - first + 1) |-> first + k - 1]
           \o CellSlots(Tail(cells), gridCellStartIndices, gridCellEndIndices)

\* new_vel of thread idx of kernUpdateVelNeighborSearchScattered
ScatteredVelocity(idx, gridResolution, gridMin, inverseCellWidth, gridCellStartIndices, gridCellEndIndices, particleArrayIndices, pos, vel1) ==
  LET cells == ValidNeighbors(pos[idx], gridMin, inverseCellWidth,
                              gridResolution, gridCellStartIndices)
      slots == CellSlots(cells, gridCellStartIndices, gridCellEndIndices)
      cand  == [k \in 1..Len(slots) |-> particleArrayIndices[slots[k]]]
  IN  RawVelocity(cand, idx, pos, vel1)

\* new_vel of thread idx of kernUpdateVelNeighborSearchCoherent
CoherentVelocity(idx, gridResolution, gridMin, inverseCellWidth, gridCellStartIndices, gridCellEndIndices, pos, vel1) ==
  LET cells == ValidNeighbors(pos[idx], gridMin, inverseCellWidth,
                              gridResolution, gridCellStartIndices)
      slots == CellSlots(cells, gridCellStartIndices, gridCellEndIndices)
  IN  RawVelocity(slots, idx, pos, vel1)

(* ----------------------------- kernUpdatePos -------------------------- *)
\* a wrap by the width of the scene in place of the reset
WrapLow_Modulo(x) == IF x < -scene_scale THEN x + 2 * scene_scale ELSE x

WrapLow(x) == IF x < -scene_scale THEN scene_scale ELSE x

\* the upper wrap left out
WrapHigh_Unwrapped(x) == x

WrapHigh(x) == IF x > scene_scale THEN -scene_scale ELSE x

UpdatePos(thisPos, vel, dt) ==
  LET moved == VAdd(thisPos, VMul(vel, dt))
  IN  [c \in Axes |-> WrapHigh(WrapLow(moved[c]))]

(* ------------------------------- state -------------------------------- *)
VARIABLES
  numObjects,
  dev_pos, dev_vel1, dev_vel2,
  dev_particleArrayIndices, dev_particleGridIndices,
  dev_gridCellStartIndices, dev_gridCellEndIndices,
  dev_posGridIndices, dev_velGridIndices,
  gridCellCount, gridSideCount, gridCellWidth, gridInverseCellWidth,
  gridMinimum,
  pc,        \* the kernel or host statement the running step executes next
  strategy,  \* the step function that is running, or ran last
  dt,        \* the argument the caller passes to every step
  steps,     \* completed and running steps
  pos0, vel0,          \* dev_pos and dev_vel1 when the running step was called
  posOwner0,           \* posOwner at that moment
  rawVel,              \* new_vel of each thread before the clamp
  posOwner, velOwner   \* the initial slot of the boid whose data a slot holds

gridVars == <<gridCellCount, gridSideCount, gridCellWidth,
              gridInverseCellWidth, gridMinimum>>
sortVars == <<dev_particleArrayIndices, dev_particleGridIndices>>
tableVars == <<dev_gridCellStartIndices, dev_gridCellEndIndices>>
keyVars == <<dev_posGridIndices, dev_velGridIndices>>
callVars == <<strategy, steps, pos0, vel0, posOwner0>>
ownerVars == <<posOwner, velOwner>>

vars == <<numObjects, dev_pos, dev_vel1, dev_vel2, sortVars, tableVars,
          keyVars, gridVars, pc, dt, callVars, rawVel, ownerVars>>

(* --------------------------- initSimulation --------------------------- *)
\* samples of generateRandomVec3, each component in [-1, 1); times
\* scene_scale they are (1, 0, 0), (2, 1, 2) in the same cell and at distance
\* sqrt(6) of it, (-1, 2, -1) in another cell, at distance 3 of the first,
\* and (99.9, -100, 99.9) in a corner of the scene
RandomVec3 == { <<10, 0, 0>>, <<20, 10, 20>>, <<-10, 20, -10>>,
                <<999, -1000, 999>> }

\* the generator is seeded with hash(index): one sample per index
RandomDraws(N) ==
  {rand \in [0..(N - 1) -> RandomVec3] :
     \A i, j \in 0..(N - 1) : rand[i] = rand[j] => i = j}

kernGenerateRandomPosArray(N, rand, scale) ==
  [index \in 0..(N - 1) |-> VMul(rand[index], scale)]

\* what cudaMalloc may hand out for dev_vel1, which nothing initialises
StaleVelocities == { ZeroVec, <<1000, -1000, 1000>> }

\* and for the two per-cell tables
StaleTables == { EmptyTable, [c \in {5577} |-> 0] }

\* the time step of the caller's loop: 0.2, or 250.0
DtChoices == {200, 250000}

InitGridCellWidth ==
  2 * Max2(Max2(rule1Distance, rule2Distance), rule3Distance)

halfSideCount == (scene_scale \div InitGridCellWidth) + 1

halfGridWidth == InitGridCellWidth * halfSideCount

\* gridMinimum.x -= halfGridWidth, and so for y and z
InitGridMinimum(old) == [c \in Axes |-> old[c] - halfGridWidth]

Init ==
  /\ numObjects \in 1..MaxN
  /\ \E rand \in RandomDraws(numObjects) :
       dev_pos = kernGenerateRandomPosArray(numObjects, rand, scene_scale)
  /\ dev_vel1 \in [0..(numObjects - 1) -> StaleVelocities]
  /\ dev_vel2 = Unwritten
  /\ dev_particleArrayIndices = Unwritten
  /\ dev_particleGridIndices = Unwritten
  /\ dev_gridCellStartIndices \in StaleTables
  /\ dev_gridCellEndIndices = dev_gridCellStartIndices
  /\ dev_posGridIndices = Unwritten
  /\ dev_velGridIndices = Unwritten
  /\ gridCellWidth = InitGridCellWidth
  /\ gridSideCount = 2 * halfSideCount
  /\ gridCellCount = gridSideCount * gridSideCount * gridSideCount
  /\ gridInverseCellWidth = (FP * FP) \div gridCellWidth
  /\ gridMinimum = InitGridMinimum(ZeroVec)
  /\ pc = "idle"
  /\ strategy = "none"
  /\ dt \in DtChoices
  /\ steps = 0
  /\ pos0 = dev_pos
  /\ vel0 = dev_vel1
  /\ posOwner0 = [i \in 0..(numObjects - 1) |-> i]
  /\ rawVel = Unwritten
  /\ posOwner = [i \in 0..(numObjects - 1) |-> i]
  /\ velOwner = [i \in 0..(numObjects - 1) |-> i]

(* ------------------------------ the steps ----------------------------- *)
Particles == 0..(numObjects - 1)

Call(name, d, first) ==
  /\ pc = "idle"
  /\ steps < MaxSteps
  /\ d = dt
  /\ strategy' = name
  /\ steps' = steps + 1
  /\ pos0' = dev_pos
  /\ vel0' = dev_vel1
  /\ posOwner0' = posOwner
  /\ pc' = first
  /\ UNCHANGED <<numObjects, dev_pos, dev_vel1, dev_vel2, sortVars, tableVars,
                 keyVars, gridVars, dt, rawVel, ownerVars>>

stepSimulationNaive(d) == Call("naive", d, "BruteForce")

stepSimulationScatteredGrid(d) == Call("scattered", d, "Reset")

stepSimulationCoherentGrid(d) == Call("coherent", d, "Reset")

\* kernUpdateVelocityBruteForce<<<...>>>(numObjects, dev_pos, dev_vel1, dev_vel2)
kernUpdateVelocityBruteForce ==
  /\ pc = "BruteForce"
  /\ rawVel' = [idx \in Particles |->
                  computeVelocityChange(numObjects, idx, dev_pos, dev_vel1)]
  /\ dev_vel2' = [idx \in Particles |-> ClampSpeed(rawVel'[idx])]
  /\ pc' = "Swap"
  /\ UNCHANGED <<numObjects, dev_pos, dev_vel1, sortVars, tableVars, keyVars,
                 gridVars, dt, callVars, ownerVars>>

\* the step going on to kernUpdatePos without the swap
SwapBuffers_Skipped ==
  /\ pc = "Swap"
  /\ pc' = "UpdatePos"
  /\ UNCHANGED <<numObjects, dev_pos, dev_vel1, dev_vel2, sortVars, tableVars,
                 keyVars, gridVars, dt, callVars, rawVel, ownerVars>>

\* std::swap(dev_vel1, dev_vel2)
SwapBuffers ==
  /\ pc = "Swap"
  /\ dev_vel1' = dev_vel2
  /\ dev_vel2' = dev_vel1
  /\ pc' = "UpdatePos"
  /\ UNCHANGED <<numObjects, dev_pos, sortVars, tableVars, keyVars, gridVars,
                 dt, callVars, rawVel, ownerVars>>

\* kernUpdatePos<<<...>>>(numObjects, dt, dev_pos, dev_vel1)
kernUpdatePos ==
  /\ pc = "UpdatePos"
  /\ dev_pos' = [index \in Particles |->
                   UpdatePos(dev_pos[index], dev_vel1[index], dt)]
  /\ pc' = "idle"
  /\ UNCHANGED <<numObjects, dev_vel1, dev_vel2, sortVars, tableVars, keyVars,
                 gridVars, dt, callVars, rawVel, ownerVars>>

\* the two kernResetIntBuffer launches
ResetCellTables ==
  /\ pc = "Reset"
  /\ dev_gridCellStartIndices' =
       kernResetIntBuffer(gridCellCount, dev_gridCellStartIndices, -1)
  /\ dev_gridCellEndIndices' =
       kernResetIntBuffer(gridCellCount, dev_gridCellEndIndices, -1)
  /\ pc' = "ComputeIndices"
  /\ UNCHANGED <<numObjects, dev_pos, dev_vel1, dev_vel2, sortVars, keyVars,
                 gridVars, dt, callVars, rawVel, ownerVars>>

kernComputeIndices ==
  /\ pc = "ComputeIndices"
  /\ dev_particleGridIndices' =
       ComputeGridIndices(numObjects, gridSideCount, gridMinimum,
                          gridInverseCellWidth, dev_pos)
  /\ dev_particleArrayIndices' = ComputeArrayIndices(numObjects)
  /\ pc' = IF strategy = "coherent" THEN "CopyKeys" ELSE "SortByKey"
  /\ UNCHANGED <<numObjects, dev_pos, dev_vel1, dev_vel2, tableVars, keyVars,
                 gridVars, dt, callVars, rawVel, ownerVars>>

\* the two cudaMemcpy of the coherent step
CopyKeys ==
  /\ pc = "CopyKeys"
  /\ dev_posGridIndices' = dev_particleGridIndices
  /\ dev_velGridIndices' = dev_particleGridIndices
  /\ pc' = "SortByKey"
  /\ UNCHANGED <<numObjects, dev_pos, dev_vel1, dev_vel2, sortVars, tableVars,
                 gridVars, dt, callVars, rawVel, ownerVars>>

\* thrust::sort_by_key(dev_particleGridIndices, dev_particleArrayIndices)
SortByKey ==
  /\ pc = "SortByKey"
  /\ \E p \in SortOrders(dev_particleGridIndices, numObjects) :
       /\ dev_particleGridIndices' = Permute(dev_particleGridIndices, p)
       /\ dev_particleArrayIndices' = Permute(dev_particleArrayIndices, p)
  /\ pc' = "IdentifyCellStartEnd"
  /\ UNCHANGED <<numObjects, dev_pos, dev_vel1, dev_vel2, tableVars, keyVars,
                 gridVars, dt, callVars, rawVel, ownerVars>>

kernIdentifyCellStartEnd ==
  /\ pc = "IdentifyCellStartEnd"
  /\ dev_gridCellStartIndices' \in
       TablesWritten(dev_gridCellStartIndices, dev_particleGridIndices,
                     StartWriters(numObjects, dev_particleGridIndices))
  /\ dev_gridCellEndIndices' \in
       TablesWritten(dev_gridCellEndIndices, dev_particleGridIndices,
                     EndWriters(numObjects, dev_particleGridIndices))
  /\ pc' = IF strategy = "coherent" THEN "Reorder" ELSE "Scattered"
  /\ UNCHANGED <<numObjects, dev_pos, dev_vel1, dev_vel2, sortVars, keyVars,
                 gridVars, dt, callVars, rawVel, ownerVars>>

\* sort_by_key(dev_posGridIndices, dev_pos) and
\* sort_by_key(dev_velGridIndices, dev_vel1) of the coherent step
ReorderByKey ==
  /\ pc = "Reorder"
  /\ \E p \in SortOrders(dev_posGridIndices, numObjects) :
       /\ dev_posGridIndices' = Permute(dev_posGridIndices, p)
       /\ dev_pos' = Permute(dev_pos, p)
       /\ posOwner' = Permute(posOwner, p)
  /\ \E q \in SortOrders(dev_velGridIndices, numObjects) :
       /\ dev_velGridIndices' = Permute(dev_velGridIndices, q)
       /\ dev_vel1' = Permute(dev_vel1, q)
       /\ velOwner' = Permute(velOwner, q)
  /\ pc' = "Coherent"
  /\ UNCHANGED <<numObjects, dev_vel2, sortVars, tableVars, gridVars, dt,
                 callVars, rawVel>>

kernUpdateVelNeighborSearchScattered ==
  /\ pc = "Scattered"
  /\ rawVel' = [idx \in Particles |->
                  ScatteredVelocity(idx, gridSideCount, gridMinimum,
                                    gridInverseCellWidth,
                                    dev_gridCellStartIndices,
                                    dev_gridCellEndIndices,
                                    dev_particleArrayIndices, dev_pos,
                                    dev_vel1)]
  /\ dev_vel2' = [idx \in Particles |-> ClampSpeed(rawVel'[idx])]
  /\ pc' = "Swap"
  /\ UNCHANGED <<numObjects, dev_pos, dev_vel1, sortVars, tableVars, keyVars,
                 gridVars, dt, callVars, ownerVars>>

kernUpdateVelNeighborSearchCoherent ==
  /\ pc = "Coherent"
  /\ rawVel' = [idx \in Particles |->
                  CoherentVelocity(idx, gridSideCount, gridMinimum,
                                   gridInverseCellWidth,
                                   dev_gridCellStartIndices,
                                   dev_gridCellEndIndices, dev_pos, dev_vel1)]
  /\ dev_vel2' = [idx \in Particles |-> ClampSpeed(rawVel'[idx])]
  /\ pc' = "Swap"
  /\ UNCHANGED <<numObjects, dev_pos, dev_vel1, sortVars, tableVars, keyVars,
                 gridVars, dt, callVars, ownerVars>>

Next ==
  \/ stepSimulationNaive(dt)
  \/ stepSimulationScatteredGrid(dt)
  \/ stepSimulationCoherentGrid(dt)
  \/ kernUpdateVelocityBruteForce
  \/ ResetCellTables
  \/ kernComputeIndices
  \/ CopyKeys
  \/ SortByKey
  \/ kernIdentifyCellStartEnd
  \/ ReorderByKey
  \/ kernUpdateVelNeighborSearchScattered
  \/ kernUpdateVelNeighborSearchCoherent
  \/ SwapBuffers
  \/ kernUpdatePos

Spec == Init /\ [][Next]_vars

(* ------------------ endSimulation and a later initSimulation ---------- *)
\* cudaFree of the nine buffers; the host globals keep their values
endSimulation ==
  /\ pc = "idle"
  /\ dev_pos' = Unwritten
  /\ dev_vel1' = Unwritten
  /\ dev_vel2' = Unwritten
  /\ dev_particleArrayIndices' = Unwritten
  /\ dev_particleGridIndices' = Unwritten
  /\ dev_gridCellStartIndices' = EmptyTable
  /\ dev_gridCellEndIndices' = EmptyTable
  /\ dev_posGridIndices' = Unwritten
  /\ dev_velGridIndices' = Unwritten
  /\ rawVel' = Unwritten
  /\ pc' = "ended"
  /\ UNCHANGED <<numObjects, gridVars, dt, callVars, ownerVars>>

\* initSimulation(N) called again: as the first call, but gridMinimum is a
\* global that the call decrements from the value the last call left
initSimulation(N) ==
  /\ pc = "ended"
  /\ -gridMinimum[1] < MaxInits * halfGridWidth
  /\ numObjects' = N
  /\ \E rand \in RandomDraws(N) :
       dev_pos' = kernGenerateRandomPosArray(N, rand, scene_scale)
  /\ dev_vel1' \in [0..(N - 1) -> StaleVelocities]
  /\ dev_vel2' = Unwritten
  /\ dev_particleArrayIndices' = Unwritten
  /\ dev_particleGridIndices' = Unwritten
  /\ dev_gridCellStartIndices' \in StaleTables
  /\ dev_gridCellEndIndices' = dev_gridCellStartIndices'
  /\ dev_posGridIndices' = Unwritten
  /\ dev_velGridIndices' = Unwritten
  /\ gridCellWidth' = InitGridCellWidth
  /\ gridSideCount' = 2 * halfSideCount
  /\ gridCellCount' = gridSideCount' * gridSideCount' * gridSideCount'
  /\ gridInverseCellWidth' = (FP * FP) \div gridCellWidth'
  /\ gridMinimum' = InitGridMinimum(gridMinimum)
  /\ pc' = "idle"
  /\ strategy' = "none"
  /\ pos0' = dev_pos'
  /\ vel0' = dev_vel1'
  /\ posOwner0' = [i \in 0..(N - 1) |-> i]
  /\ rawVel' = Unwritten
  /\ posOwner' = [i \in 0..(N - 1) |-> i]
  /\ velOwner' = [i \in 0..(N - 1) |-> i]
  /\ UNCHANGED <<dt, steps>>

\* a process that may end the simulation and initialise it again
NextReinit ==
  \/ Next
  \/ endSimulation
  \/ \E N \in 1..MaxN : initSimulation(N)

SpecReinit == Init /\ [][NextReinit]_vars

(* ======================= properties of the steps ====================== *)
AllBoids == [k \in 1..numObjects |-> k - 1]

StepDone == pc = "idle" /\ steps > 0

VecNear(a, b, tol) == \A c \in Axes : Abs(a[c] - b[c]) <= tol

\* the slot that now holds the position of the boid that was in slot i when
\* the running step was called
SlotNow(i) == CHOOSE j \in Particles : posOwner[j] = posOwner0[i]

\* no other boid within any of the three rule distances, at the call
Isolated(i, pos) ==
  \A j \in DOMAIN pos :
    j # i => /\ ~DistanceLess(pos[j], pos[i], rule1Distance)
             /\ ~DistanceLess(pos[j], pos[i], rule2Distance)
             /\ ~DistanceLess(pos[j], pos[i], rule3Distance)

(* C1: from the same positions and velocities, a step of any of the three  *)
(* strategies leaves every slot i with the velocity the brute-force step   *)
(* leaves there, within tolerance.                                         *)
C1_StrategiesAgree ==
  StepDone =>
    \A i \in Particles :
      VecNear(dev_vel1[i],
              ClampSpeed(computeVelocityChange(numObjects, i, pos0, vel0)),
              Tolerance)

(* C2: a boid with zero velocity and no other boid within any rule         *)
(* distance has zero velocity after the step, and its position is the one  *)
(* it had before the step.                                                 *)
C2_IsolatedBoidRests ==
  StepDone =>
    \A i \in Particles :
      (Isolated(i, pos0) /\ vel0[i] = ZeroVec) =>
        /\ dev_vel1[SlotNow(i)] = ZeroVec
        /\ dev_pos[SlotNow(i)] = pos0[i]

(* C3: with no other boid within rule1Distance of the focal boid, the      *)
(* velocity kernel adds nothing for cohesion: new_vel before the clamp is  *)
(* the boid's velocity plus the separation and the alignment term.         *)
C3_NoNeighbourNoCohesion ==
  pc = "Swap" =>
    \A idx \in Particles :
      (\A j \in Particles :
         j # idx => ~DistanceLess(dev_pos[j], dev_pos[idx], rule1Distance)) =>
        rawVel[idx] =
          VAdd(VAdd(dev_vel1[idx], Rule2(AllBoids, idx, dev_pos[idx], dev_pos)),
               Rule3(AllBoids, idx, dev_pos[idx], dev_pos, dev_vel1))

(* C4: after initSimulation and before the first step, dev_vel1 holds the  *)
(* zero vector for every boid.                                             *)
C4_InitialVelocityZero ==
  steps = 0 => \A i \in Particles : dev_vel1[i] = ZeroVec

(* C5: after every step every velocity of the current buffer has length    *)
(* at most maxSpeed (within tolerance), and a new_vel whose length does    *)
(* not exceed maxSpeed is stored as it is.                                 *)
C5_SpeedCap ==
  StepDone =>
    \A i \in Particles :
      /\ ~LengthExceeds(dev_vel1[i], maxSpeed + Tolerance)
      /\ ~LengthExceeds(rawVel[i], maxSpeed) => dev_vel1[i] = rawVel[i]

\* a step after which one velocity was cut to maxSpeed and another kept
C5_Witness ==
  /\ StepDone
  /\ \E i \in Particles :
       LengthExceeds(rawVel[i], maxSpeed) /\ dev_vel1[i] # rawVel[i]
  /\ \E i \in Particles :
       ~LengthExceeds(rawVel[i], maxSpeed) /\ rawVel[i] # ZeroVec

(* C6: after initSimulation and after every step, every coordinate of      *)
(* every position lies in [-scene_scale, scene_scale].                     *)
C6_PositionsInScene ==
  pc = "idle" =>
    \A i \in Particles : \A c \in Axes :
      -scene_scale <= dev_pos[i][c] /\ dev_pos[i][c] <= scene_scale

\* a brute-force step that carried a coordinate over each face of the scene
C6_Witness ==
  /\ StepDone
  /\ strategy = "naive"
  /\ \E i \in Particles : \E c \in Axes :
       /\ VAdd(pos0[i], VMul(dev_vel1[i], dt))[c] > scene_scale
       /\ dev_pos[i][c] = -scene_scale
  /\ \E i \in Particles : \E c \in Axes :
       /\ VAdd(pos0[i], VMul(dev_vel1[i], dt))[c] < -scene_scale
       /\ dev_pos[i][c] = scene_scale

(* C7: a boid keeps its slot: after any steps, slot i of dev_pos and of    *)
(* dev_vel1 holds the data of the boid that was in slot i after            *)
(* initSimulation.                                                         *)
C7_SlotIsIdentity ==
  pc = "idle" => \A i \in Particles : posOwner[i] = i /\ velOwner[i] = i

\* one order the sorts may leave: equal keys keep their order
StableOrder(keys, N) ==
  CHOOSE p \in SortOrders(keys, N) :
    \A i, j \in 0..(N - 1) : (i < j /\ keys[p[i]] = keys[p[j]]) => p[i] < p[j]

\* <<position, velocity>> after the running grid step of the boid that was
\* in slot i at the call, had every sort_by_key left the stable order
StableOutcome(i) ==
  LET N     == numObjects
      keys0 == ComputeGridIndices(N, gridSideCount, gridMinimum,
                                  gridInverseCellWidth, pos0)
      p     == StableOrder(keys0, N)
      keys  == Permute(keys0, p)
      first == CHOOSE t \in TablesWritten(EmptyTable, keys,
                                          StartWriters(N, keys)) : TRUE
      last  == CHOOSE t \in TablesWritten(EmptyTable, keys,
                                          EndWriters(N, keys)) : TRUE
      posS  == Permute(pos0, p)
      velS  == Permute(vel0, p)
      j     == CHOOSE k \in 0..(N - 1) : p[k] = i
      velScattered ==
        ClampSpeed(ScatteredVelocity(i, gridSideCount, gridMinimum,
                                     gridInverseCellWidth, first, last, p,
                                     pos0, vel0))
      velCoherent ==
        ClampSpeed(CoherentVelocity(j, gridSideCount, gridMinimum,
                                    gridInverseCellWidth, first, last, posS,
                                    velS))
  IN  IF strategy = "coherent"
        THEN <<UpdatePos(posS[j], velCoherent, dt), velCoherent>>
        ELSE <<UpdatePos(pos0[i], velScattered, dt), velScattered>>

(* C8: the outcome of a grid step does not depend on the order in which    *)
(* sort_by_key leaves equal keys: every boid ends the step with the        *)
(* position and velocity it ends it with when all sorts are stable.        *)
C8_TieOrderIrrelevant ==
  (StepDone /\ strategy \in {"scattered", "coherent"}) =>
    \A i \in Particles :
      <<dev_pos[SlotNow(i)], dev_vel1[SlotNow(i)]>> = StableOutcome(i)

(* C9: after the key sort dev_particleGridIndices is non-decreasing, the   *)
(* (key, value) pairs are those kernComputeIndices wrote,                  *)
(* dev_particleArrayIndices is a permutation of 0..N-1 and                 *)
(* dev_particleGridIndices[i] is the cell of boid                          *)
(* dev_particleArrayIndices[i].                                            *)
C9_SortedAndCoPermuted ==
  pc = "IdentifyCellStartEnd" =>
    /\ IsSorted(dev_particleGridIndices)
    /\ \A v \in Particles :
         Cardinality({i \in Particles : dev_particleArrayIndices[i] = v}) = 1
    /\ \A i \in Particles :
         /\ dev_particleArrayIndices[i] \in Particles
         /\ dev_particleGridIndices[i] =
              gridIndex1D(dev_pos[dev_particleArrayIndices[i]], gridMinimum,
                          gridInverseCellWidth, gridSideCount)

\* a sort that found two equal keys and moved a pair
C9_Witness ==
  /\ pc = "IdentifyCellStartEnd"
  /\ \E i \in Particles : dev_particleArrayIndices[i] # i
  /\ \E i, j \in Particles :
       i # j /\ dev_particleGridIndices[i] = dev_particleGridIndices[j]

(* C10: when the velocity kernel of a grid step runs, for every cell c     *)
(* with start[c] # -1 exactly the slots start[c]..end[c] of the sorted     *)
(* keys carry c, and start[c] <= end[c]; every cell that holds no boid in  *)
(* this step has start[c] = end[c] = -1.  (Cells outside OccupiedOrSet     *)
(* read -1 in both tables.)                                                *)
OccupiedOrSet ==
  (DOMAIN dev_gridCellStartIndices) \cup (DOMAIN dev_gridCellEndIndices)
    \cup {dev_particleGridIndices[i] : i \in Particles}

SlotsOfCell(c) == {i \in Particles : dev_particleGridIndices[i] = c}

C10_CellRanges ==
  pc \in {"Scattered", "Coherent"} =>
    /\ OccupiedOrSet \subseteq 0..(gridCellCount - 1)
    /\ \A c \in OccupiedOrSet :
         LET first == CellAt(dev_gridCellStartIndices, c)
             last  == CellAt(dev_gridCellEndIndices, c)
         IN  /\ first # -1 =>
                  first <= last /\ SlotsOfCell(c) = first..last
             /\ SlotsOfCell(c) = {} => first = -1 /\ last = -1

\* the velocity kernel of a later step, run while a cell that the previous
\* (coherent) step found occupied holds no boid and reads -1
C10_Witness ==
  /\ pc = "Scattered"
  /\ steps > 1
  /\ dev_posGridIndices # Unwritten
  /\ \E i \in Particles :
       /\ SlotsOfCell(dev_posGridIndices[i]) = {}
       /\ CellAt(dev_gridCellStartIndices, dev_posGridIndices[i]) = -1
       /\ CellAt(dev_gridCellEndIndices, dev_posGridIndices[i]) = -1

(* C11: after every initSimulation, the first and any later one, the grid  *)
(* has an even side count, gridCellCount = gridSideCount^3, a cell width   *)
(* of twice the largest rule distance, and a minimum corner that puts      *)
(* [-scene_scale, scene_scale]^3 inside the lattice with at least one cell *)
(* of margin on each side.                                                 *)
C11_GridCoversScene ==
  pc # "ended" =>
    /\ gridSideCount % 2 = 0
    /\ gridCellCount = gridSideCount * gridSideCount * gridSideCount
    /\ gridCellWidth =
         2 * Max2(Max2(rule1Distance, rule2Distance), rule3Distance)
    /\ \A c \in Axes :
         /\ gridMinimum[c] + gridCellWidth <= -scene_scale
         /\ gridMinimum[c] + (gridSideCount - 1) * gridCellWidth >= scene_scale

\* the other half of C11: no step changes a grid parameter
C11_StepsKeepGrid == [][pc # "ended" => UNCHANGED gridVars]_vars

(* C12: for a focal boid with at least one other boid within each rule     *)
(* distance, new_vel before the clamp is, in each of the three kernels,    *)
(*   vel + rule1Scale * (mean position of the boids within rule1Distance   *)
(*                       - own position)                                   *)
(*       + rule2Scale * (sum over the boids within rule2Distance of        *)
(*                       (own position - their position))                  *)
(*       + rule3Scale * (mean velocity of the boids within rule3Distance), *)
(* each set without the focal boid and with distance < radius.             *)
Within(idx, radius) ==
  {j \in Particles \ {idx} : DistanceLess(dev_pos[j], dev_pos[idx], radius)}

RECURSIVE SumOver(_, _)
SumOver(S, arr) ==
  IF S = {} THEN ZeroVec
  ELSE LET j == CHOOSE k \in S : TRUE
       IN  VAdd(arr[j], SumOver(S \ {j}, arr))

MeanOver(S, arr) == VDiv(SumOver(S, arr), Cardinality(S))

ThreeRules(idx) ==
  LET n1 == Within(idx, rule1Distance)
      n2 == Within(idx, rule2Distance)
      n3 == Within(idx, rule3Distance)
      away == [j \in Particles |-> VSub(dev_pos[idx], dev_pos[j])]
  IN  VAdd(VAdd(VAdd(dev_vel1[idx],
                     VMul(VSub(MeanOver(n1, dev_pos), dev_pos[idx]),
                          rule1Scale)),
                VMul(SumOver(n2, away), rule2Scale)),
           VMul(MeanOver(n3, dev_vel1), rule3Scale))

HasAllNeighbours(idx) ==
  /\ Within(idx, rule1Distance) # {}
  /\ Within(idx, rule2Distance) # {}
  /\ Within(idx, rule3Distance) # {}

Moved(i, c) == pos0[i][c] + VMul(dev_vel1[SlotNow(i)], dt)[c]

C13_OneShotWrap ==
  StepDone =>
    \A i \in Particles : \A c \in Axes :
      LET moved == Moved(i, c)
      IN  dev_pos[SlotNow(i)][c] =
            IF moved < -scene_scale THEN scene_scale
            ELSE IF moved > scene_scale THEN -scene_scale
            ELSE moved

\* a step that reset a coordinate from far beyond each face, where a modulo
\* would land elsewhere, and left a coordinate that lay on a face on it
C13_Witness ==
  /\ StepDone
  /\ \E i \in Particles : \E c \in Axes :
       /\ Abs(Moved(i, c)) = scene_scale
       /\ dev_pos[SlotNow(i)][c] = Moved(i, c)
  /\ \E i \in Particles : \E c \in Axes :
       /\ Moved(i, c) > scene_scale
       /\ Moved(i, c) - 2 * scene_scale # -scene_scale
       /\ dev_pos[SlotNow(i)][c] = -scene_scale
  /\ \E i \in Particles : \E c \in Axes :
       /\ Moved(i, c) < -scene_scale
       /\ Moved(i, c) + 2 * scene_scale # scene_scale
       /\ dev_pos[SlotNow(i)][c] = scene_scale

(* C14: in every step of every strategy the current buffer dev_vel1 keeps  *)
(* the contents it had when the step was called until the swap, and when   *)
(* the swap runs the next buffer dev_vel2 holds the new velocity of all N  *)
(* boids.                                                                  *)
C14_CurrentBufferFrozen ==
  /\ pc \notin {"idle", "UpdatePos"} => dev_vel1 = vel0
  /\ pc = "Swap" =>
       dev_vel2 = [idx \in Particles |-> ClampSpeed(rawVel[idx])]

\* the part of C14 that leaves the reorder of the coherent step aside: the
\* velocity kernels leave dev_vel1 as they found it and fill dev_vel2
KernelKeepsCurrent ==
  pc \in {"BruteForce", "Scattered", "Coherent"} =>
    (dev_vel1' = dev_vel1 /\
     dev_vel2' = [idx \in Particles |-> ClampSpeed(rawVel'[idx])])

C14_KernelsKeepCurrent == [][KernelKeepsCurrent]_vars

(* C15: in every grid step the stages run in the order reset and           *)
(* grid-index labelling, key sort, cell start/end extraction, (coherent    *)
(* only) reorder of position and velocity, velocity evaluation, buffer     *)
(* swap, position integration; a stage starts with the finished output of  *)
(* the stage before it for all N boids, and position integration reads the *)
(* velocities computed in this same step.                                  *)
GridStages ==
  IF strategy = "coherent"
    THEN <<"Reset", "ComputeIndices", "CopyKeys", "SortByKey",
           "IdentifyCellStartEnd", "Reorder", "Coherent", "Swap",
           "UpdatePos", "idle">>
    ELSE <<"Reset", "ComputeIndices", "SortByKey", "IdentifyCellStartEnd",
           "Scattered", "Swap", "UpdatePos", "idle">>

InGridStep == strategy \in {"scattered", "coherent"} /\ pc # "idle"

StagesInOrder ==
  InGridStep =>
    \E k \in 1..(Len(GridStages) - 1) :
      GridStages[k] = pc /\ GridStages[k + 1] = pc'

StageInputsComplete ==
  InGridStep =>
    /\ pc = "ComputeIndices" =>
         /\ dev_gridCellStartIndices = EmptyTable
         /\ dev_gridCellEndIndices = EmptyTable
    /\ pc \in {"CopyKeys", "SortByKey"} =>
         /\ dev_particleArrayIndices = [idx \in Particles |-> idx]
         /\ dev_particleGridIndices =
              [idx \in Particles |->
                 gridIndex1D(dev_pos[idx], gridMinimum, gridInverseCellWidth,
                             gridSideCount)]
    /\ pc = "IdentifyCellStartEnd" =>
         /\ DOMAIN dev_particleGridIndices = Particles
         /\ IsSorted(dev_particleGridIndices)
    /\ pc \in {"Reorder", "Scattered", "Coherent"} =>
         \A i \in Particles :
           LET c == dev_particleGridIndices[i]
           IN  /\ CellAt(dev_gridCellStartIndices, c) \in 0..i
               /\ CellAt(dev_gridCellEndIndices, c) \in i..(numObjects - 1)
    /\ pc = "Coherent" =>
         /\ dev_posGridIndices = dev_particleGridIndices
         /\ dev_velGridIndices = dev_particleGridIndices
    /\ pc = "Swap" =>
         dev_vel2 = [idx \in Particles |-> ClampSpeed(rawVel[idx])]
    /\ pc = "UpdatePos" =>
         dev_vel1 =
           [idx \in Particles |->
              ClampSpeed(
                IF strategy = "coherent"
                  THEN CoherentVelocity(idx, gridSideCount, gridMinimum,
                                        gridInverseCellWidth,
                                        dev_gridCellStartIndices,
                                        dev_gridCellEndIndices, dev_pos,
                                        dev_vel2)
                  ELSE computeVelocityChange(numObjects, idx, pos0, vel0))]

MaxRuleDistance == Max2(Max2(rule1Distance, rule2Distance), rule3Distance)

InScene(p) == \A c \in Axes : -scene_scale <= p[c] /\ p[c] <= scene_scale

\* the boids the loops of the running grid kernel reach from thread idx
Visited(idx) ==
  LET cells == ValidNeighbors(dev_pos[idx], gridMinimum, gridInverseCellWidth,
                              gridSideCount, dev_gridCellStartIndices)
      slots == CellSlots(cells, dev_gridCellStartIndices,
                         dev_gridCellEndIndices)
  IN  IF pc = "Scattered"
        THEN [k \in 1..Len(slots) |-> dev_particleArrayIndices[slots[k]]]
        ELSE slots

Visits(idx, j) ==
  LET seen == Visited(idx)
  IN  Cardinality({k \in 1..Len(seen) : seen[k] = j})

CellOf(p) == gridIndex1D(p, gridMinimum, gridInverseCellWidth, gridSideCount)

ChosenCells(idx) ==
  LET cells == NeighborCells(dev_pos[idx], gridMinimum, gridInverseCellWidth,
                             gridSideCount)
  IN  {cells[k] : k \in 1..8}

C16_NeighboursInChosenCells ==
  pc \in {"Scattered", "Coherent"} =>
    \A idx \in Particles : \A j \in Particles \ {idx} :
      (InScene(dev_pos[idx])
         /\ DistanceLess(dev_pos[j], dev_pos[idx], MaxRuleDistance)) =>
        /\ CellOf(dev_pos[j]) \in ChosenCells(idx)
        /\ Visits(idx, j) = 1

\* a grid kernel about to run with a boid whose neighbour within the
\* largest rule distance lies in a higher cell, found with a bias of +1, and
\* one whose neighbour lies in a lower cell, found with a bias of -1
C16_Witness ==
  /\ pc \in {"Scattered", "Coherent"}
  /\ \E idx \in Particles : \E j \in Particles \ {idx} :
       /\ DistanceLess(dev_pos[j], dev_pos[idx], MaxRuleDistance)
       /\ CellOf(dev_pos[j]) > CellOf(dev_pos[idx])
       /\ Visits(idx, j) = 1
  /\ \E idx \in Particles : \E j \in Particles \ {idx} :
       /\ DistanceLess(dev_pos[j], dev_pos[idx], MaxRuleDistance)
       /\ CellOf(dev_pos[j]) < CellOf(dev_pos[idx])
       /\ Visits(idx, j) = 1

(* C17: within one stage no two threads write the same slot: given the     *)
(* sorted keys, at most one thread of kernIdentifyCellStartEnd writes      *)
(* start[c] and at most one writes end[c] for each cell c, so every        *)
(* interleaving of its threads leaves the same two tables; the velocity    *)
(* kernels and kernUpdatePos leave one entry per thread, entry idx being   *)
(* the value thread idx computed.                                          *)
OneWriterPerCell(writers) ==
  \A a, b \in writers :
    dev_particleGridIndices[a] = dev_particleGridIndices[b] => a = b

C17_OneWriterPerSlot ==
  /\ pc = "IdentifyCellStartEnd" =>
       /\ OneWriterPerCell(StartWriters(numObjects, dev_particleGridIndices))
       /\ OneWriterPerCell(EndWriters(numObjects, dev_particleGridIndices))
       /\ Cardinality(
            TablesWritten(dev_gridCellStartIndices, dev_particleGridIndices,
                          StartWriters(numObjects, dev_particleGridIndices)))
            = 1
       /\ Cardinality(
            TablesWritten(dev_gridCellEndIndices, dev_particleGridIndices,
                          EndWriters(numObjects, dev_particleGridIndices)))
            = 1
  /\ pc = "Swap" =>
       /\ DOMAIN dev_vel2 = Particles
       /\ \A idx \in Particles : dev_vel2[idx] = ClampSpeed(rawVel[idx])
  /\ StepDone =>
       /\ DOMAIN dev_pos = Particles
       /\ \A i \in Particles :
            dev_pos[SlotNow(i)] =
              UpdatePos(pos0[i], dev_vel1[SlotNow(i)], dt)

\* kernIdentifyCellStartEnd about to run on keys in which two threads carry
\* the same cell, so that only the boundary tests keep them from writing the
\* same entries
C17_Witness ==
  /\ pc = "IdentifyCellStartEnd"
  /\ \E a, b \in Particles :
       /\ a # b
       /\ dev_particleGridIndices[a] = dev_particleGridIndices[b]
       /\ a \in StartWriters(numObjects, dev_particleGridIndices)
       /\ b \in EndWriters(numObjects, dev_particleGridIndices)

(* C18: in the coherent step, after the two sort_by_key calls that         *)
(* reorder dev_pos and dev_vel1, and after any number of coherent steps,   *)
(* slot i of dev_pos and slot i of dev_vel1 hold data of the same boid,    *)
(* and the cell of the position in slot i is the sorted key of slot i      *)
(* that start/end were built from.                                         *)
C18_SlotsStayPaired ==
  /\ (strategy = "coherent"
        /\ pc \in {"Coherent", "Swap", "UpdatePos", "idle"}) =>
       \A i \in Particles : posOwner[i] = velOwner[i]
  /\ pc = "Coherent" =>
       \A i \in Particles : CellOf(dev_pos[i]) = dev_particleGridIndices[i]

\* the second half of C18 alone
C18_PositionsMatchKeys ==
  pc = "Coherent" =>
    \A i \in Particles : CellOf(dev_pos[i]) = dev_particleGridIndices[i]

(* C19: for every boid whose position lies in the scene, each of the 8     *)
(* cell coordinates the grid kernels form (own cell, plus the bias of -1   *)
(* or +1 on each axis) has its three components in 0..gridSideCount-1, so  *)
(* the 8 flattened cell ids lie in 0..gridCellCount-1 and are pairwise     *)
(* distinct.                                                               *)
NeighborCoords(boid_pos) ==
  LET g    == gridIndex3D(boid_pos, gridMinimum, gridInverseCellWidth)
      bias == BiasAlongAxes(boid_pos, gridMinimum, gridInverseCellWidth)
  IN  {[c \in Axes |-> g[c] + step[c] * bias[c]] : step \in [Axes -> {0, 1}]}

C19_CellsInRange ==
  pc # "ended" =>
    \A i \in Particles :
      InScene(dev_pos[i]) =>
        /\ \A g \in NeighborCoords(dev_pos[i]) : \A c \in Axes :
             0 <= g[c] /\ g[c] < gridSideCount
        /\ ChosenCells(i) \subseteq 0..(gridCellCount - 1)
        /\ Cardinality(ChosenCells(i)) = 8

====
